---- MODULE Spec2Model ----
(***************************************************************************)
(* Pipe-inspection robot and its telemetry service.                        *)
(*                                                                         *)
(*   database.py  TelemetryLogger: the four tables and their statements    *)
(*   main.py      the HTTP handlers in front of the store                  *)
(*   prog.py      PressureSensor, Crawler, PipeMap, InspectionController   *)
(*                                                                         *)
(* Pressures and calibration bounds are integers counting tenths of a bar; *)
(* a raw random draw is an integer counting hundredths of a bar.           *)
(* Timestamps are integer clock readings.  A nullable column holds <<>>    *)
(* (NULL) or <<v>>.                                                        *)
(***************************************************************************)
EXTENDS Integers, Sequences, FiniteSets, TLC

VARIABLES
    db,                 \* database.py: the four tables behind db._conn
    clock,              \* last reading of datetime.utcnow()
    map_data,           \* PipeMap.map_data: rows of cell markers
    calibration_data,   \* PressureSensor.calibration_data: <<>> or <<(low, high)>>
    calibrate_arg,      \* argument of the last calibrate call: <<>> or <<(low, high)>>
    current_position,   \* Crawler.current_position: <<>> or <<point>>
    inspected,          \* InspectionController.inspected
    leaks,              \* InspectionController.leaks
    stack,              \* auto_inspect: local stack
    visited,            \* auto_inspect: local visited
    pc,                 \* where the client program is
    session_id,         \* the session id the client passes to every request
    calls,              \* auto_inspect calls made so far: 0, 1, or 2 for two or more
    moves,              \* history of Crawler.move_to calls: target and returned direction
    posts,              \* history of requests.post calls: request and status code received
    draw,               \* PressureSensor: last raw random draw and branch taken
    pressure,           \* last value returned by read_pressure
    status,             \* last value returned by get_pressure_status
    answer,             \* the last request, if it was a GET, and its response: <<>> or <<r>>
    event_loop          \* end_session coroutines: their frames, and the one running

vars == <<db, clock, map_data, calibration_data, calibrate_arg, current_position,
          inspected, leaks, stack, visited, pc, session_id, calls, moves,
          posts, draw, pressure, status, answer, event_loop>>

storeVars == <<db, clock>>
clientVars == <<map_data, calibration_data, calibrate_arg, current_position, inspected, leaks,
                stack, visited, pc, session_id, calls, moves, posts>>
sensorVars == <<draw, pressure, status>>

(***************************************************************************)
(* Bounds of the model                                                     *)
(***************************************************************************)
MaxSessions == 2
MaxRows == 1
MaxClock == 1

NULL == <<>>
Some(v) == <<v>>

Range(s) == {s[i] : i \in 1..Len(s)}

(***************************************************************************)
(* database.py                                                             *)
(***************************************************************************)
\* init_schema: four empty tables
init_schema ==
    [sessions |-> <<>>, sensor_readings |-> <<>>,
     actuator_commands |-> <<>>, events |-> <<>>]

\* database.py: CHECK(status IN ('running','completed','error'))
SessionStatuses == {"running", "completed", "error"}

\* database.py: CHECK(severity IN ('info','warning','error'))
Severities == {"info", "warning", "error"}

\* id INTEGER PRIMARY KEY [AUTOINCREMENT]: one more than the largest id so far;
\* a table is kept in id order, so its last row holds the largest id
next_rowid(table) ==
    IF table = <<>> THEN 1 ELSE table[Len(table)].id + 1

\* TelemetryLogger.create_session: returns the new store and lastrowid
db_create_session_first_id(d, variant_id, ts) ==
    [db |-> [d EXCEPT !.sessions = Append(@,
                [id |-> 1, variant_id |-> variant_id, started_at |-> ts,
                 ended_at |-> NULL, status |-> "running"])],
     lastrowid |-> 1]

db_create_session(d, variant_id, ts) ==
    LET rowid == next_rowid(d.sessions) IN
    [db |-> [d EXCEPT !.sessions = Append(@,
                [id |-> rowid, variant_id |-> variant_id, started_at |-> ts,
                 ended_at |-> NULL, status |-> "running"])],
     lastrowid |-> rowid]

\* TelemetryLogger.get_session: <<>> (None) or <<row>>
db_get_session(d, sid) ==
    LET rows == SelectSeq(d.sessions, LAMBDA r : r.id = sid) IN
    IF rows = <<>> THEN <<>> ELSE <<rows[1]>>

\* TelemetryLogger.end_session: UPDATE sessions SET ended_at=?, status=? WHERE id=?
db_end_session_clearing_log(d, sid, st, ts) ==
    [d EXCEPT !.sessions = [i \in 1..Len(@) |->
                IF @[i].id = sid
                THEN [@[i] EXCEPT !.ended_at = Some(ts), !.status = st]
                ELSE @[i]],
              !.sensor_readings = SelectSeq(@, LAMBDA r : r.session_id # sid),
              !.actuator_commands = SelectSeq(@, LAMBDA r : r.session_id # sid),
              !.events = SelectSeq(@, LAMBDA r : r.session_id # sid)]

db_end_session_no_ended_at(d, sid, st, ts) ==
    [d EXCEPT !.sessions = [i \in 1..Len(@) |->
        IF @[i].id = sid THEN [@[i] EXCEPT !.status = st] ELSE @[i]]]

db_end_session(d, sid, st, ts) ==
    [d EXCEPT !.sessions = [i \in 1..Len(@) |->
        IF @[i].id = sid
        THEN [@[i] EXCEPT !.ended_at = Some(ts), !.status = st]
        ELSE @[i]]]

\* TelemetryLogger.log_sensor
db_log_sensor(d, sid, sensor_type, value, unit, ts) ==
    [d EXCEPT !.sensor_readings = Append(@,
        [id |-> next_rowid(@), session_id |-> sid, sensor_type |-> sensor_type,
         timestamp |-> ts, value |-> value, unit |-> unit])]

\* TelemetryLogger.log_command
db_log_command(d, sid, actuator_type, command, st, ts) ==
    [d EXCEPT !.actuator_commands = Append(@,
        [id |-> next_rowid(@), session_id |-> sid, actuator_type |-> actuator_type,
         timestamp |-> ts, command |-> command, status |-> st])]

\* TelemetryLogger.log_event
db_log_event(d, sid, event_type, severity, message, ts) ==
    [d EXCEPT !.events = Append(@,
        [id |-> next_rowid(@), session_id |-> sid, timestamp |-> ts,
         event_type |-> event_type, severity |-> severity, message |-> message])]

(***************************************************************************)
(* models.py: request validation done before a handler runs                *)
(***************************************************************************)
\* SessionEnd.status: Literal["completed", "error"]
SessionEnd_valid(payload) == payload.status \in {"completed", "error"}

\* EventLog.severity: Literal["info", "warning", "error"]
EventLog_valid(payload) == payload.severity \in {"info", "warning", "error"}

(***************************************************************************)
(* main.py: each handler maps (store, request, clock reading) to           *)
(* (store, response).  The handlers are coroutines without an await, so    *)
(* each runs to completion before the event loop starts another.  The      *)
(* response goes back to the caller; the service keeps no copy of it.      *)
(***************************************************************************)
Resp(code, detail, body) ==
    [code |-> code, detail |-> detail, body |-> body]

Unprocessable == Resp(422, "validation error", <<>>)

\* POST /sessions
create_session(d, payload, ts) ==
    LET r == db_create_session(d, payload.variant_id, ts) IN
    [db |-> r.db,
     response |-> Resp(201, "",
                       db_get_session(r.db, r.lastrowid))]

\* POST /sessions/{session_id}/end
end_session_unchecked(d, sid, payload, ts) ==
    LET session == db_get_session(d, sid) IN
    IF ~SessionEnd_valid(payload) THEN
        [db |-> d, response |-> Unprocessable]
    ELSE IF session = <<>> THEN
        [db |-> d, response |-> Resp(404, "Session not found", <<>>)]
    ELSE
        LET d2 == db_end_session(d, sid, payload.status, ts) IN
        [db |-> d2,
         response |-> Resp(200, "", db_get_session(d2, sid))]

end_session(d, sid, payload, ts) ==
    LET session == db_get_session(d, sid) IN
    IF ~SessionEnd_valid(payload) THEN
        [db |-> d, response |-> Unprocessable]
    ELSE IF session = <<>> THEN
        [db |-> d, response |-> Resp(404, "Session not found", <<>>)]
    ELSE IF session[1].status # "running" THEN
        [db |-> d, response |-> Resp(400, "Session already ended", <<>>)]
    ELSE
        LET d2 == db_end_session(d, sid, payload.status, ts) IN
        [db |-> d2,
         response |-> Resp(200, "", db_get_session(d2, sid))]

\* POST /sessions/{session_id}/sensors
log_sensor_unchecked(d, sid, payload, ts) ==
    [db |-> db_log_sensor(d, sid, payload.sensor_type, payload.value, payload.unit, ts),
     response |-> Resp(201, "logged", <<>>)]

log_sensor_running_only(d, sid, payload, ts) ==
    LET session == db_get_session(d, sid) IN
    IF session = <<>> THEN
        [db |-> d, response |-> Resp(404, "Session not found", <<>>)]
    ELSE IF session[1].status # "running" THEN
        [db |-> d, response |-> Resp(400, "Session already ended", <<>>)]
    ELSE
        [db |-> db_log_sensor(d, sid, payload.sensor_type, payload.value, payload.unit, ts),
         response |-> Resp(201, "logged", <<>>)]

log_sensor(d, sid, payload, ts) ==
    IF db_get_session(d, sid) = <<>> THEN
        [db |-> d, response |-> Resp(404, "Session not found", <<>>)]
    ELSE
        [db |-> db_log_sensor(d, sid, payload.sensor_type, payload.value, payload.unit, ts),
         response |-> Resp(201, "logged", <<>>)]

\* POST /sessions/{session_id}/actuators
log_actuator(d, sid, payload, ts) ==
    IF db_get_session(d, sid) = <<>> THEN
        [db |-> d, response |-> Resp(404, "Session not found", <<>>)]
    ELSE
        [db |-> db_log_command(d, sid, payload.actuator_type, payload.command, payload.status, ts),
         response |-> Resp(201, "logged", <<>>)]

\* POST /sessions/{session_id}/events
log_event(d, sid, payload, ts) ==
    IF ~EventLog_valid(payload) THEN
        [db |-> d, response |-> Unprocessable]
    ELSE IF db_get_session(d, sid) = <<>> THEN
        [db |-> d, response |-> Resp(404, "Session not found", <<>>)]
    ELSE
        [db |-> db_log_event(d, sid, payload.event_type, payload.severity, payload.message, ts),
         response |-> Resp(201, "logged", <<>>)]

(***************************************************************************)
(* The telemetry service under arbitrary requests                          *)
(***************************************************************************)
\* datetime.utcnow(): the same reading as the previous one, or a later one
utcnow(c) == {t \in {c, c + 1} : t <= MaxClock}

VariantIds == {10}
SessionIds == 1..(MaxSessions + 1)
EndPayloads == [status : {"completed", "error", "running"}]
SensorPayloads ==
    {[sensor_type |-> "pressure", value |-> 449, unit |-> "bar"],
     [sensor_type |-> "position_x", value |-> 2, unit |-> "cell"]}
ActuatorPayloads ==
    [actuator_type : {"movement"}, command : {1}, status : {<<"sent">>}]
EventPayloads ==
    [event_type : {"leak_detected"}, severity : {"error", "fatal"},
     message : {<<"msg">>}]

LogRows(d) == Len(d.sensor_readings) + Len(d.actuator_commands) + Len(d.events)

\* the handler's result r becomes the new store state; the clock was read
\* only when the handler reached a statement of database.py that writes
Served(r, ts) ==
    /\ db' = r.db
    /\ clock' = IF r.response.code \in {200, 201} THEN ts ELSE clock
    /\ answer' = <<>>
    /\ UNCHANGED <<clientVars, sensorVars, event_loop>>

CreateSession ==
    /\ Len(db.sessions) < MaxSessions
    /\ \E v \in VariantIds, ts \in utcnow(clock) :
          Served(create_session(db, [variant_id |-> v], ts), ts)

EndSession ==
    \E sid \in SessionIds, payload \in EndPayloads, ts \in utcnow(clock) :
        Served(end_session(db, sid, payload, ts), ts)

LogSensor ==
    /\ LogRows(db) < MaxRows
    /\ \E sid \in SessionIds, payload \in SensorPayloads, ts \in utcnow(clock) :
          Served(log_sensor(db, sid, payload, ts), ts)

LogActuator ==
    /\ LogRows(db) < MaxRows
    /\ \E sid \in SessionIds, payload \in ActuatorPayloads, ts \in utcnow(clock) :
          Served(log_actuator(db, sid, payload, ts), ts)

LogEvent ==
    /\ LogRows(db) < MaxRows
    /\ \E sid \in SessionIds, payload \in EventPayloads, ts \in utcnow(clock) :
          Served(log_event(db, sid, payload, ts), ts)

ClientIdle ==
    /\ map_data = <<>>
    /\ calibration_data = NULL
    /\ calibrate_arg = NULL
    /\ current_position = NULL
    /\ inspected = {}
    /\ leaks = <<>>
    /\ stack = <<>>
    /\ visited = {}
    /\ pc = "idle"
    /\ session_id = 0
    /\ calls = 0
    /\ moves = <<>>
    /\ posts = <<>>

SensorIdle ==
    /\ draw = [branch |-> "none", raw |-> 0]
    /\ pressure = 0
    /\ status = "none"

\* no GET request has been answered yet and no end_session coroutine exists
NoAnswer ==
    /\ answer = <<>>
    /\ event_loop = [running |-> 0, frames |-> <<>>]

\* startup(): db.connect(); db.init_schema() on a new database file
Init ==
    /\ db = init_schema
    /\ clock = 0
    /\ ClientIdle
    /\ SensorIdle
    /\ NoAnswer

Next == CreateSession \/ EndSession \/ LogSensor \/ LogActuator \/ LogEvent

Spec == Init /\ [][Next]_vars

(***************************************************************************)
(* Properties of the telemetry service                                     *)
(***************************************************************************)
SessionExists(d, sid) == \E i \in 1..Len(d.sessions) : d.sessions[i].id = sid

SessionEnded(d, sid) ==
    \E i \in 1..Len(d.sessions) :
        d.sessions[i].id = sid /\ d.sessions[i].status # "running"

\* an end request on an ended session is answered 400 and changes nothing
EndedSessionRejectsEnd ==
    \A sid \in SessionIds, payload \in EndPayloads, ts \in utcnow(clock) :
        (SessionEnded(db, sid) /\ SessionEnd_valid(payload)) =>
            LET r == end_session(db, sid, payload, ts) IN
            r.response.code = 400 /\ r.db = db

\* a step never changes the status or ended_at of a session that has ended
EndedSessionKept ==
    \A i \in 1..Len(db.sessions) :
        db.sessions[i].status # "running" =>
            /\ i <= Len(db'.sessions)
            /\ db'.sessions[i].id = db.sessions[i].id
            /\ db'.sessions[i].status = db.sessions[i].status
            /\ db'.sessions[i].ended_at = db.sessions[i].ended_at

\* C1: a session leaves running at most once: an end request on a session
\* that is completed or error is answered invalid-transition (400), and no
\* step changes the stored status or ended_at of an ended session.
C1_EndAtMostOnce == [](EndedSessionRejectsEnd) /\ [][EndedSessionKept]_vars

\* a session ended at time 0 is still stored as ended at time 0 after the
\* clock has moved on and further requests were served
C1_Witness ==
    \E i \in 1..Len(db.sessions) :
        /\ db.sessions[i].status # "running"
        /\ db.sessions[i].ended_at = Some(0)
        /\ clock = 1

\* C2: for every session, status is one of running, completed, error, and
\* ended_at is set exactly when status is not running.
C2_EndedAtIffNotRunning ==
    \A i \in 1..Len(db.sessions) :
        /\ db.sessions[i].status \in {"running", "completed", "error"}
        /\ (db.sessions[i].ended_at # NULL) <=> (db.sessions[i].status # "running")

C2_Witness ==
    /\ \E i \in 1..Len(db.sessions) :
          db.sessions[i].status = "running" /\ db.sessions[i].ended_at = NULL
    /\ \E i \in 1..Len(db.sessions) :
          db.sessions[i].status = "error" /\ db.sessions[i].ended_at # NULL

\* the tables other than the named one, and the sessions, are the same in d and e
OnlyTableChanged(d, e, table) ==
    /\ e.sessions = d.sessions
    /\ table # "sensor_readings" => e.sensor_readings = d.sensor_readings
    /\ table # "actuator_commands" => e.actuator_commands = d.actuator_commands
    /\ table # "events" => e.events = d.events

\* new is old with exactly one more row, and that row belongs to session sid
OneRowAppended(old, new, sid) ==
    /\ Len(new) = Len(old) + 1
    /\ SubSeq(new, 1, Len(old)) = old
    /\ new[Len(new)].session_id = sid

LogAnswer(r, d, sid, table) ==
    IF SessionExists(d, sid)
    THEN /\ r.response.code = 201
         /\ OnlyTableChanged(d, r.db, table)
         /\ OneRowAppended(d[table], r.db[table], sid)
    ELSE /\ r.response.code = 404
         /\ r.response.detail = "Session not found"
         /\ r.db = d

\* C5: a log request for a session id that does not exist is answered
\* session-not-found (404) and changes no table; for an existing session it
\* appends exactly one row with that session id to its own table and changes
\* neither the sessions nor the other two tables.
C5_LogChecksSession ==
    \A sid \in SessionIds, ts \in utcnow(clock) :
        /\ \A payload \in SensorPayloads :
              LogAnswer(log_sensor(db, sid, payload, ts), db, sid, "sensor_readings")
        /\ \A payload \in ActuatorPayloads :
              LogAnswer(log_actuator(db, sid, payload, ts), db, sid, "actuator_commands")
        /\ \A payload \in {q \in EventPayloads : EventLog_valid(q)} :
              LogAnswer(log_event(db, sid, payload, ts), db, sid, "events")

\* two sessions exist, a row was logged for the second one, and one id is unknown
C5_Witness ==
    /\ Len(db.sessions) = 2
    /\ LogRows(db) >= 1
    /\ \E sid \in SessionIds : ~SessionExists(db, sid)
    /\ \/ \E i \in 1..Len(db.sensor_readings) : db.sensor_readings[i].session_id = 2
       \/ \E i \in 1..Len(db.actuator_commands) : db.actuator_commands[i].session_id = 2
       \/ \E i \in 1..Len(db.events) : db.events[i].session_id = 2

(***************************************************************************)
(* prog.py: PressureSensor                                                 *)
(***************************************************************************)
LeakFloor == 100        \* 10.0 bar, lower end of the leak draw
LeakMargin == 50        \* low - 5
NormalSpan == 300       \* high + 30
HighThreshold == 1500   \* 150 bar

\* random.uniform(a, b) = a + (b - a) * random(): any value between the two
\* ends, whichever is larger; the end b may be returned because of rounding.
\* a and b are tenths of a bar, the result is the set of draws in hundredths.
uniform(a, b) ==
    IF a <= b THEN (10 * a)..(10 * b) ELSE (10 * b)..(10 * a)

\* round(x, 1): the nearest tenth, a tie going to the even tenth
round1_down(raw) == raw \div 10

round1(raw) ==
    LET q == raw \div 10
        r == raw % 10
    IN  IF r < 5 THEN q
        ELSE IF r > 5 THEN q + 1
        ELSE IF q % 2 = 0 THEN q ELSE q + 1

\* read_pressure: the two arguments of random.uniform on the chosen branch
read_pressure_ends_no_margin(cal, branch) ==
    IF branch = "leak"
    THEN <<LeakFloor, cal[1]>>
    ELSE <<cal[1], cal[2] + NormalSpan>>

read_pressure_ends(cal, branch) ==
    IF branch = "leak"
    THEN <<LeakFloor, cal[1] - LeakMargin>>
    ELSE <<cal[1], cal[2] + NormalSpan>>

\* read_pressure: the interval the chosen branch draws from
read_pressure_range(cal, branch) ==
    uniform(read_pressure_ends(cal, branch)[1], read_pressure_ends(cal, branch)[2])

\* calibrate(normal_range) on a sensor holding data: the new calibration_data
calibrate_once(data, normal_range) ==
    IF data = NULL THEN Some(normal_range) ELSE data

calibrate(data, normal_range) == Some(normal_range)

\* read_pressure for a calibrated sensor, given the branch taken and the raw draw
read_pressure(cal, d) == round1(d.raw)

\* get_pressure_status for a calibrated sensor
get_pressure_status_inclusive(cal, p) ==
    IF p <= cal[1] - LeakMargin THEN "LEAK"
    ELSE IF p > HighThreshold THEN "HIGH"
    ELSE "NORMAL"

get_pressure_status(cal, p) ==
    IF p < cal[1] - LeakMargin THEN "LEAK"
    ELSE IF p > HighThreshold THEN "HIGH"
    ELSE "NORMAL"

NoDraw == [branch |-> "none", raw |-> 0]

(***************************************************************************)
(* prog.py: PipeMap                                                        *)
(***************************************************************************)
PipePoint(x, y) == [x |-> x, y |-> y]

width(m) == IF m = <<>> THEN 0 ELSE Len(m[1])
height(m) == Len(m)

is_pipe_point(m, point) ==
    /\ 0 <= point.x /\ point.x < width(m)
    /\ 0 <= point.y /\ point.y < height(m)
    /\ m[point.y + 1][point.x + 1] = "X"

\* for y in range(height) for x in range(width) if is_pipe_point
get_all_pipe_points(m) ==
    LET w == width(m)
        cells == [k \in 1..(w * height(m)) |-> PipePoint((k - 1) % w, (k - 1) \div w)]
    IN  SelectSeq(cells, LAMBDA point : is_pipe_point(m, point))

\* the candidates of get_neighbors in the order they are tried
neighbor_deltas_left_first == << <<-1, 0>>, <<0, -1>>, <<1, 0>>, <<0, 1>> >>

neighbor_deltas == << <<0, 1>>, <<1, 0>>, <<0, -1>>, <<-1, 0>> >>

get_neighbors_no_left(m, point) ==
    LET cand == [i \in 1..3 |->
                    PipePoint(point.x + neighbor_deltas[i][1],
                              point.y + neighbor_deltas[i][2])]
    IN  SelectSeq(cand, LAMBDA n : is_pipe_point(m, n))

get_neighbors(m, point) ==
    LET cand == [i \in 1..Len(neighbor_deltas) |->
                    PipePoint(point.x + neighbor_deltas[i][1],
                              point.y + neighbor_deltas[i][2])]
    IN  SelectSeq(cand, LAMBDA n : is_pipe_point(m, n))

(***************************************************************************)
(* prog.py: Crawler.  A request is what requests.post sends: the endpoint  *)
(* and the json payload.  Formatted texts are tuples of their parts.       *)
(***************************************************************************)
_get_direction_y_up(from_p, to_p) ==
    LET dx == to_p.x - from_p.x
        dy == to_p.y - from_p.y
    IN  IF dx = 1 /\ dy = 0 THEN "RIGHT"
        ELSE IF dx = -1 /\ dy = 0 THEN "LEFT"
        ELSE IF dy = 1 /\ dx = 0 THEN "UP"
        ELSE IF dy = -1 /\ dx = 0 THEN "DOWN"
        ELSE "UNKNOWN"

_get_direction(from_p, to_p) ==
    LET dx == to_p.x - from_p.x
        dy == to_p.y - from_p.y
    IN  IF dx = 1 /\ dy = 0 THEN "RIGHT"
        ELSE IF dx = -1 /\ dy = 0 THEN "LEFT"
        ELSE IF dy = 1 /\ dx = 0 THEN "DOWN"
        ELSE IF dy = -1 /\ dx = 0 THEN "UP"
        ELSE "UNKNOWN"

\* f"dir_{direction.name.lower()}"
dir_actuator(direction) ==
    CASE direction = "RIGHT" -> "dir_right"
      [] direction = "LEFT" -> "dir_left"
      [] direction = "DOWN" -> "dir_down"
      [] direction = "UP" -> "dir_up"
      [] OTHER -> "dir_unknown"

Request(endpoint, payload) == [endpoint |-> endpoint, payload |-> payload]

\* Crawler.move_to: the new position, the direction returned, the requests sent
move_to(pos, target) ==
    LET direction == IF pos = NULL THEN "UNKNOWN" ELSE _get_direction(pos[1], target)
    IN  [current_position |-> Some(target),
         direction |-> direction,
         requests |->
            << Request("sensors", [sensor_type |-> "position_x", value |-> target.x,
                                   unit |-> "cell"]),
               Request("sensors", [sensor_type |-> "position_y", value |-> target.y,
                                   unit |-> "cell"]),
               Request("actuators", [actuator_type |-> "movement", command |-> 1,
                                     status |-> <<direction, target.x, target.y>>]) >>
            \o (IF direction # "UNKNOWN"
                THEN << Request("actuators", [actuator_type |-> dir_actuator(direction),
                                              command |-> 1, status |-> <<"executed">>]) >>
                ELSE <<>>)]

(***************************************************************************)
(* prog.py: requests.post against main.py.  The caller never looks at the  *)
(* response (no status check, no raise_for_status), so every request of a  *)
(* call is sent whatever the answers are.  Each request served reads a     *)
(* later clock value than the one before.                                  *)
(***************************************************************************)
\* the handler main.py routes the request to
route(d, sid, req, ts) ==
    CASE req.endpoint = "sensors" -> log_sensor(d, sid, req.payload, ts)
      [] req.endpoint = "actuators" -> log_actuator(d, sid, req.payload, ts)
      [] req.endpoint = "events" -> log_event(d, sid, req.payload, ts)

\* the element of a one-element set; binding a result with  x \in {e}  makes
\* TLC compute e once however often x is used
The(S) == CHOOSE x \in S : TRUE

RECURSIVE post_all(_, _, _, _)
\* the requests of one call, sent one after the other: the store and clock
\* afterwards, and for each request the status code that came back
post_all(d, c, sid, reqs) ==
    IF reqs = <<>> THEN [db |-> d, clock |-> c, posts |-> <<>>]
    ELSE The({
        The({ [db |-> rest.db, clock |-> rest.clock,
               posts |-> <<[request |-> Head(reqs), code |-> r.response.code]>>
                         \o rest.posts] :
              rest \in {post_all(r.db, IF r.response.code = 201 THEN c + 1 ELSE c,
                                 sid, Tail(reqs))} }) :
        r \in {route(d, sid, Head(reqs), c + 1)} })

(***************************************************************************)
(* prog.py: InspectionController                                           *)
(***************************************************************************)
\* the requests inspect_point sends after move_to, for a reading pr classified st
sample_requests_status_first(point, pr, st) ==
    << Request("actuators", [actuator_type |-> "pressure_status",
                             command |-> IF st = "NORMAL" THEN 1 ELSE 0,
                             status |-> <<st>>]),
       Request("sensors", [sensor_type |-> "pressure", value |-> pr, unit |-> "bar"]) >>
    \o (IF st = "LEAK"
        THEN << Request("events", [event_type |-> "leak_detected", severity |-> "error",
                                   message |-> <<"leak", point.x, point.y, pr>>]) >>
        ELSE <<>>)

sample_requests(point, pr, st) ==
    << Request("sensors", [sensor_type |-> "pressure", value |-> pr, unit |-> "bar"]),
       Request("actuators", [actuator_type |-> "pressure_status",
                             command |-> IF st = "NORMAL" THEN 1 ELSE 0,
                             status |-> <<st>>]) >>
    \o (IF st = "LEAK"
        THEN << Request("events", [event_type |-> "leak_detected", severity |-> "error",
                                   message |-> <<"leak", point.x, point.y, pr>>]) >>
        ELSE IF st = "HIGH"
        THEN << Request("events", [event_type |-> "high_pressure", severity |-> "warning",
                                   message |-> <<"high", point.x, point.y, pr>>]) >>
        ELSE <<>>)

\* inspect_point past the membership test: the point is marked, the crawler
\* moves, and the sensor is read (ValueError when it is not calibrated)
inspect_new_point_listing_high(insp, lks, pos, cal, point, d) ==
    LET mv == move_to(pos, point) IN
    IF cal = NULL THEN
        [inspected |-> insp \cup {point}, leaks |-> lks,
         current_position |-> mv.current_position,
         moves |-> <<[target |-> point, direction |-> mv.direction]>>,
         requests |-> mv.requests, raised |-> TRUE,
         draw |-> [branch |-> "ValueError", raw |-> 0], pressure |-> 0, status |-> "none"]
    ELSE
        LET pr == read_pressure(cal[1], d)
            st == get_pressure_status(cal[1], pr)
        IN  [inspected |-> insp \cup {point},
             leaks |-> IF st # "NORMAL" THEN Append(lks, <<point, pr>>) ELSE lks,
             current_position |-> mv.current_position,
             moves |-> <<[target |-> point, direction |-> mv.direction]>>,
             requests |-> mv.requests \o sample_requests(point, pr, st),
             raised |-> FALSE, draw |-> d, pressure |-> pr, status |-> st]

inspect_new_point(insp, lks, pos, cal, point, d) ==
    LET mv == move_to(pos, point) IN
    IF cal = NULL THEN
        [inspected |-> insp \cup {point}, leaks |-> lks,
         current_position |-> mv.current_position,
         moves |-> <<[target |-> point, direction |-> mv.direction]>>,
         requests |-> mv.requests, raised |-> TRUE,
         draw |-> [branch |-> "ValueError", raw |-> 0], pressure |-> 0, status |-> "none"]
    ELSE
        LET pr == read_pressure(cal[1], d)
            st == get_pressure_status(cal[1], pr)
        IN  [inspected |-> insp \cup {point},
             leaks |-> IF st = "LEAK" THEN Append(lks, <<point, pr>>) ELSE lks,
             current_position |-> mv.current_position,
             moves |-> <<[target |-> point, direction |-> mv.direction]>>,
             requests |-> mv.requests \o sample_requests(point, pr, st),
             raised |-> FALSE, draw |-> d, pressure |-> pr, status |-> st]

\* InspectionController.inspect_point
inspect_point_always(insp, lks, pos, cal, point, d) ==
    inspect_new_point(insp, lks, pos, cal, point, d)

inspect_point_unrecorded(insp, lks, pos, cal, point, d) ==
    IF point \in insp THEN
        [inspected |-> insp, leaks |-> lks, current_position |-> pos,
         moves |-> <<>>, requests |-> <<>>, raised |-> FALSE,
         draw |-> draw, pressure |-> pressure, status |-> status]
    ELSE [inspect_new_point(insp, lks, pos, cal, point, d) EXCEPT !.inspected = insp]

inspect_point(insp, lks, pos, cal, point, d) ==
    IF point \in insp THEN
        [inspected |-> insp, leaks |-> lks, current_position |-> pos,
         moves |-> <<>>, requests |-> <<>>, raised |-> FALSE,
         draw |-> draw, pressure |-> pressure, status |-> status]
    ELSE inspect_new_point(insp, lks, pos, cal, point, d)

\* min(points, key=lambda p: (p.y, p.x))
min_point(points) ==
    CHOOSE p \in Range(points) :
        \A q \in Range(points) : p.y < q.y \/ (p.y = q.y /\ p.x <= q.x)

\* stack.pop(): the element taken and the stack left
stack_pop_first(s) == [item |-> s[1], rest |-> Tail(s)]

stack_peek(s) == [item |-> s[Len(s)], rest |-> s]

stack_pop(s) == [item |-> s[Len(s)], rest |-> SubSeq(s, 1, Len(s) - 1)]

\* report(): the three counts it prints
report ==
    [total |-> Len(get_all_pipe_points(map_data)),
     inspected |-> Cardinality(inspected),
     leaks |-> Len(leaks)]

(***************************************************************************)
(* An inspection run: auto_inspect on a controller built as main() builds  *)
(* it, one step per call and per iteration of the while loop               *)
(***************************************************************************)
GridW == 3
GridH == 2
MaxPipeCells == 4

\* the grids of GridH rows and GridW columns with at most MaxPipeCells pipe cells
Grids ==
    {m \in [1..GridH -> [1..GridW -> {"X", "."}]] :
        Cardinality({c \in (1..GridH) \X (1..GridW) : m[c[1]][c[2]] = "X"}) <= MaxPipeCells}

\* main() calibrates (50.0, 120.0); (50.0, 130.0) also lets a reading exceed 150
RunCalibrations == {<<500, 1200>>, <<500, 1300>>}

\* outcomes of the two random draws of read_pressure tried at every point
SampleDraws ==
    {[branch |-> "leak", raw |-> 4490],
     [branch |-> "normal", raw |-> 12000],
     [branch |-> "normal", raw |-> 15010]}

\* the draws read_pressure can make when inspect_point reaches it
DrawChoices(cal, point, insp) ==
    IF point \in insp \/ cal = NULL THEN {NoDraw}
    ELSE {d \in SampleDraws : d.raw \in read_pressure_range(cal[1], d.branch)}

\* the controller, crawler, sensor and store after an inspect_point call
\* that returned r
Inspected(r) ==
    /\ inspected' = r.inspected
    /\ leaks' = r.leaks
    /\ current_position' = r.current_position
    /\ moves' = moves \o r.moves
    /\ draw' = r.draw
    /\ pressure' = r.pressure
    /\ status' = r.status
    /\ \E s \in {post_all(db, clock, session_id, r.requests)} :
           /\ db' = s.db
           /\ clock' = s.clock
           /\ posts' = posts \o s.posts

\* auto_inspect up to the while loop
AutoInspectCall ==
    /\ pc \in {"idle", "done", "raised"}
    /\ calls' = IF calls = 0 THEN 1 ELSE 2
    /\ UNCHANGED <<map_data, calibration_data, calibrate_arg, session_id, answer, event_loop>>
    /\ LET points == get_all_pipe_points(map_data) IN
       IF points = <<>> THEN
           \* min() of an empty list: ValueError
           /\ pc' = "raised"
           /\ UNCHANGED <<db, clock, current_position, inspected, leaks, stack,
                          visited, moves, posts, sensorVars>>
       ELSE
           LET start == min_point(points) IN
           \E d \in DrawChoices(calibration_data, start, inspected) :
               \E r \in {inspect_point(inspected, leaks, current_position,
                                       calibration_data, start, d)} :
                   /\ Inspected(r)
                   /\ IF r.raised
                      THEN pc' = "raised" /\ UNCHANGED <<stack, visited>>
                      ELSE /\ stack' = get_neighbors(map_data, start)
                           /\ visited' = r.inspected
                           /\ pc' = IF stack' = <<>> THEN "done" ELSE "loop"

\* one iteration of the while loop, and the loop test after it
AutoInspectLoop ==
    /\ pc = "loop"
    /\ stack # <<>>
    /\ UNCHANGED <<map_data, calibration_data, calibrate_arg, session_id, calls, answer, event_loop>>
    /\ LET top == stack_pop(stack)
           next_point == top.item
       IN
       IF next_point \in visited THEN
           /\ stack' = top.rest
           /\ pc' = IF stack' = <<>> THEN "done" ELSE "loop"
           /\ UNCHANGED <<db, clock, current_position, inspected, leaks, visited,
                          moves, posts, sensorVars>>
       ELSE
           \E d \in DrawChoices(calibration_data, next_point, inspected) :
               \E r \in {inspect_point(inspected, leaks, current_position,
                                       calibration_data, next_point, d)},
                  seen \in {visited \cup {next_point}} :
                   /\ Inspected(r)
                   /\ visited' = seen
                   /\ IF r.raised
                      THEN pc' = "raised" /\ stack' = top.rest
                      ELSE /\ stack' = top.rest \o
                                  SelectSeq(get_neighbors(map_data, next_point),
                                            LAMBDA n : n \notin seen)
                           /\ pc' = IF stack' = <<>> THEN "done" ELSE "loop"

\* a fresh controller over some grid, the sensor calibrated or not
FreshController ==
    /\ map_data \in Grids
    /\ calibration_data \in {NULL} \cup {Some(c) : c \in RunCalibrations}
    /\ calibrate_arg = calibration_data
    /\ current_position = NULL
    /\ inspected = {}
    /\ leaks = <<>>
    /\ stack = <<>>
    /\ visited = {}
    /\ pc = "idle"
    /\ calls = 0
    /\ moves = <<>>
    /\ posts = <<>>
    /\ SensorIdle
    /\ NoAnswer

\* main(): POST /sessions has created session 1 and the run uses its id
InitInspect ==
    /\ db = db_create_session(init_schema, 10, 0).db
    /\ clock = 0
    /\ session_id = 1
    /\ FreshController

\* auto_inspect called with a session id the store does not hold
InitInspectLost ==
    /\ db = init_schema
    /\ clock = 0
    /\ session_id = 1
    /\ FreshController

NextInspect == AutoInspectCall \/ AutoInspectLoop

SpecInspect == InitInspect /\ [][NextInspect]_vars

SpecInspectLost == InitInspectLost /\ [][NextInspect]_vars

\* the loop is the running program: it goes on until it returns or raises
SpecInspectFair == SpecInspect /\ WF_vars(AutoInspectLoop)

(***************************************************************************)
(* Properties of an inspection run.  The pipe network is described here    *)
(* from the grid itself, without the PipeMap operations.                   *)
(***************************************************************************)
PipeCells(m) ==
    {PipePoint(c[2] - 1, c[1] - 1) :
        c \in {e \in (1..Len(m)) \X (1..GridW) : m[e[1]][e[2]] = "X"}}

Abs(n) == IF n < 0 THEN -n ELSE n

Adjacent(p, q) == Abs(p.x - q.x) + Abs(p.y - q.y) = 1

RECURSIVE Reach(_, _)
\* the pipe cells joined to a cell of S by a chain of adjacent pipe cells
Reach(m, S) ==
    LET T == S \cup {q \in PipeCells(m) : \E p \in S : Adjacent(p, q)}
    IN  IF T = S THEN S ELSE Reach(m, T)

\* the pipe cell of the topmost row that has one, leftmost in that row
StartCell(m) ==
    CHOOSE p \in PipeCells(m) :
        \A q \in PipeCells(m) : p.y < q.y \/ (p.y = q.y /\ p.x <= q.x)

MovesTo(p) == {i \in 1..Len(moves) : moves[i].target = p}

PressurePosts ==
    {i \in 1..Len(posts) :
        posts[i].request.endpoint = "sensors"
        /\ posts[i].request.payload.sensor_type = "pressure"}

\* C3: when auto_inspect, called on a fresh controller, has returned, the inspected set is exactly the set
\* of pipe cells connected to the start cell; the crawler moved to each of
\* them once and one pressure reading was taken per inspected cell; cells of
\* other components are not inspected but are counted in report()'s total.
C3_InspectsStartComponent ==
    (pc = "done" /\ calls = 1) =>
        LET component == Reach(map_data, {StartCell(map_data)}) IN
        /\ inspected = component
        /\ \A p \in component : Cardinality(MovesTo(p)) = 1
        /\ Len(moves) = Cardinality(component)
        /\ Cardinality(PressurePosts) = Cardinality(component)
        /\ report.inspected = Cardinality(component)
        /\ report.total = Cardinality(PipeCells(map_data))

\* a finished run over three connected cells that left a fourth cell out
C3_Witness ==
    /\ pc = "done"
    /\ calls = 1
    /\ Cardinality(inspected) >= 3
    /\ report.total > report.inspected

\* C4: after a request was answered 404 the run sends no further request
\* (the rejected request is the last one ever sent).
C4_RunAbortsOnRejectedWrite ==
    \A i \in 1..Len(posts) : posts[i].code = 404 => i = Len(posts)

\* a run against a store without the session returned after inspecting two
\* cells, every one of its requests having been answered 404
C4_Witness ==
    /\ pc = "done"
    /\ Cardinality(inspected) >= 2
    /\ Len(posts) >= 2
    /\ \A i \in 1..Len(posts) : posts[i].code = 404

\* C7: the while loop of auto_inspect always comes to an end: it returns
\* with an empty stack, or, only when the sensor is not calibrated, it is
\* left by the sensor's ValueError.
C7_AutoInspectTerminates ==
    (pc = "loop") ~> \/ pc = "done" /\ stack = <<>>
                     \/ pc = "raised" /\ calibration_data = NULL

\* a run over four cells has returned
C7_Witness == pc = "done" /\ stack = <<>> /\ Len(moves) >= 4

\* the cells next to p in the order down, right, up, left
AroundInOrder(p) ==
    << PipePoint(p.x, p.y + 1), PipePoint(p.x + 1, p.y),
       PipePoint(p.x, p.y - 1), PipePoint(p.x - 1, p.y) >>

\* the last cell of that order that is in U
LastAround(p, U) ==
    LET around == AroundInOrder(p)
        k == CHOOSE i \in 1..4 :
                 around[i] \in U /\ \A j \in (i + 1)..4 : around[j] \notin U
    IN  around[k]

\* C8: with a calibrated sensor the cells are inspected in LIFO depth-first
\* order: the first is the start cell; after a cell p that still has
\* uninspected pipe neighbours comes the last of them in the order down,
\* right, up, left; a cell that is no neighbour of p follows p only when
\* all pipe neighbours of p are inspected.
C8_LifoDepthFirstOrder ==
    calibration_data # NULL =>
        /\ moves # <<>> => moves[1].target = StartCell(map_data)
        /\ \A i \in 1..(Len(moves) - 1) :
              LET p == moves[i].target
                  seen == {moves[j].target : j \in 1..i}
                  U == {q \in PipeCells(map_data) : Adjacent(p, q) /\ q \notin seen}
              IN  /\ U # {} => moves[i + 1].target = LastAround(p, U)
                  /\ ~Adjacent(p, moves[i + 1].target) => U = {}

\* a finished run of four cells in which the crawler had to jump back to a
\* branch left open earlier, and one in which it kept going
C8_Witness ==
    /\ pc = "done"
    /\ Len(moves) >= 4
    /\ \E i \in 2..Len(moves) : moves[i].direction = "UNKNOWN"
    /\ \E i \in 2..Len(moves) : moves[i].direction = "LEFT"

(***************************************************************************)
(* The controller under direct calls of inspect_point and calibrate        *)
(***************************************************************************)
MaxCoord == 1
MaxInspections == 2

CallPoints == {PipePoint(x, y) : x \in 0..MaxCoord, y \in 0..MaxCoord}

\* sensor.calibrate(normal_range)
Calibrate(c) ==
    /\ calibration_data' = calibrate(calibration_data, c)
    /\ calibrate_arg' = Some(c)
    /\ UNCHANGED <<storeVars, map_data, current_position, inspected, leaks, stack,
                   visited, pc, session_id, calls, moves, posts, sensorVars, answer, event_loop>>

\* controller.inspect_point(point, session_id)
InspectPoint(point) ==
    /\ point \in inspected \/ Cardinality(inspected) < MaxInspections
    /\ \E d \in DrawChoices(calibration_data, point, inspected) :
          \E r \in {inspect_point(inspected, leaks, current_position,
                                  calibration_data, point, d)} :
              Inspected(r)
    /\ UNCHANGED <<map_data, calibration_data, calibrate_arg, stack, visited, pc, session_id, calls, answer, event_loop>>

InitController ==
    /\ db = db_create_session(init_schema, 10, 0).db
    /\ clock = 0
    /\ session_id = 1
    /\ map_data = [row \in 1..GridH |-> [col \in 1..GridW |-> "X"]]
    /\ calibration_data = NULL
    /\ calibrate_arg = NULL
    /\ current_position = NULL
    /\ inspected = {}
    /\ leaks = <<>>
    /\ stack = <<>>
    /\ visited = {}
    /\ pc = "idle"
    /\ calls = 0
    /\ moves = <<>>
    /\ posts = <<>>
    /\ SensorIdle
    /\ NoAnswer

NextController ==
    \/ \E c \in RunCalibrations : Calibrate(c)
    \/ \E point \in CallPoints : InspectPoint(point)

SpecController == InitController /\ [][NextController]_vars

\* the requests sent so far that report the crawler's arrival at p
ArrivalPosts(p) ==
    {i \in 1..Len(posts) :
        /\ posts[i].request.endpoint = "actuators"
        /\ posts[i].request.payload.actuator_type = "movement"
        /\ posts[i].request.payload.status[2] = p.x
        /\ posts[i].request.payload.status[3] = p.y}

\* every point has had its telemetry sent once if it is inspected, never otherwise
TelemetryOncePerPoint ==
    /\ \A p \in CallPoints :
          /\ Cardinality(MovesTo(p)) = IF p \in inspected THEN 1 ELSE 0
          /\ Cardinality(ArrivalPosts(p)) = IF p \in inspected THEN 1 ELSE 0
    /\ Cardinality(PressurePosts) <= Cardinality(inspected)

\* a call of inspect_point on an inspected point changes nothing
RepeatedInspectIsNoOp ==
    \A p \in inspected :
        InspectPoint(p) =>
            UNCHANGED <<inspected, leaks, current_position, moves, posts, db,
                        clock, draw, pressure, status>>

\* C6: inspect_point is idempotent: a call for a point that is already
\* inspected changes neither the inspected set, the leak list nor the
\* crawler position, reads no sensor and sends no request, so the telemetry
\* of a point is sent once whatever calls are made.
C6_InspectPointIdempotent ==
    [](TelemetryOncePerPoint) /\ [][RepeatedInspectIsNoOp]_vars

\* two points were inspected, one of them leaking, and calls can be repeated
C6_Witness ==
    /\ Cardinality(inspected) = 2
    /\ Len(moves) = 2
    /\ Len(leaks) = 1
    /\ current_position # NULL /\ current_position[1] \in inspected

(***************************************************************************)
(* The sensor alone: calibrate, read_pressure, get_pressure_status         *)
(***************************************************************************)
MaxPressure == 1700
DrawWindow == 10

\* the draws followed: those within DrawWindow hundredths of an end of the
\* interval, and those that are whole bars
SampledDraws(cal, branch) ==
    LET ends == read_pressure_ends(cal, branch)
        near(e) == (10 * e - DrawWindow)..(10 * e + DrawWindow)
        bars == {1000 * k : k \in 0..(MaxPressure \div 10)}
    IN  {raw \in near(ends[1]) \cup near(ends[2]) \cup bars :
            raw \in read_pressure_range(cal, branch)}

\* calibrations in whole bars with low <= high: the band main() uses, one
\* with a wider band, one whose leak threshold lies above 150 bar, and one
\* whose leak threshold lies below 10 bar
Calibrations == {<<500, 1200>>, <<500, 1300>>, <<1600, 1650>>, <<120, 200>>}

\* calibrate on the sensor alone; what was read before is forgotten
SensorCalibrate(c) ==
    /\ calibration_data' = calibrate(calibration_data, c)
    /\ calibrate_arg' = Some(c)
    /\ draw' = NoDraw
    /\ pressure' = 0
    /\ status' = "none"
    /\ UNCHANGED <<storeVars, map_data, current_position, inspected, leaks, stack,
                   visited, pc, session_id, calls, moves, posts, answer, event_loop>>

\* read_pressure(): ValueError without calibration, otherwise one of the
\* two branches and a draw from its interval
ReadPressure ==
    /\ IF calibration_data = NULL THEN
           /\ draw' = [branch |-> "ValueError", raw |-> 0]
           /\ pressure' = 0
       ELSE
           \E branch \in {"leak", "normal"} :
               \E raw \in SampledDraws(calibration_data[1], branch) :
                   /\ draw' = [branch |-> branch, raw |-> raw]
                   /\ pressure' = read_pressure(calibration_data[1], draw')
    /\ status' = "none"
    /\ UNCHANGED <<storeVars, clientVars, answer, event_loop>>

\* the pressures asked about: whole bars and one tenth either side of them
StatusInputs == {p \in 0..MaxPressure : p % 10 \in {0, 1, 9}}

\* get_pressure_status(p) for a value p given by the caller
GetPressureStatus(p) ==
    /\ pressure' = p
    /\ draw' = NoDraw
    /\ status' = IF calibration_data = NULL THEN "ValueError"
                 ELSE get_pressure_status(calibration_data[1], p)
    /\ UNCHANGED <<storeVars, clientVars, answer, event_loop>>

\* get_pressure_status(pressure) for the value just read, as inspect_point does
ClassifyReading ==
    /\ draw.branch \in {"leak", "normal"}
    /\ status = "none"
    /\ status' = get_pressure_status(calibration_data[1], pressure)
    /\ UNCHANGED <<storeVars, clientVars, draw, pressure, answer, event_loop>>

InitSensor ==
    /\ db = init_schema
    /\ clock = 0
    /\ ClientIdle
    /\ SensorIdle
    /\ NoAnswer

NextSensor ==
    \/ \E c \in Calibrations : SensorCalibrate(c)
    \/ ReadPressure
    \/ \E p \in StatusInputs : GetPressureStatus(p)
    \/ ClassifyReading

SpecSensor == InitSensor /\ [][NextSensor]_vars

Classified == status \in {"LEAK", "HIGH", "NORMAL"}

\* C9: get_pressure_status returns LEAK iff pressure < low - 5, otherwise
\* HIGH iff pressure > 150, otherwise NORMAL, whatever high is: low - 5 and
\* 150 themselves are NORMAL, and LEAK wins when both conditions hold.
C9_StatusBoundaries ==
    Classified =>
        LET low == calibration_data[1][1] IN
        /\ status = "LEAK" <=> pressure < low - 50
        /\ status = "HIGH" <=> (pressure >= low - 50 /\ pressure > 1500)
        /\ status = "NORMAL" <=> (pressure >= low - 50 /\ pressure <= 1500)

\* a pressure above 150 bar and below low - 5 was classified LEAK
C9_Witness == status = "LEAK" /\ pressure > 1500

Drawn == draw.branch \in {"leak", "normal"}

RECURSIVE order_by_timestamp(_)
order_by_timestamp(rows) ==
    IF rows = <<>> THEN <<>>
    ELSE LET r == rows[Len(rows)]
             sorted == order_by_timestamp(SubSeq(rows, 1, Len(rows) - 1))
             k == Cardinality({i \in 1..Len(sorted) : sorted[i].timestamp <= r.timestamp})
         IN  SubSeq(sorted, 1, k) \o <<r>> \o SubSeq(sorted, k + 1, Len(sorted))

RECURSIVE sum_values(_)
sum_values(rows) ==
    IF rows = <<>> THEN 0 ELSE rows[1].value + sum_values(Tail(rows))

\* the aggregates of one SELECT COUNT(*), AVG(value), MIN(value), MAX(value);
\* AVG is the quotient sum / count, kept as the fraction <<sum, count>>
aggregates(rows) ==
    LET values == {rows[i].value : i \in 1..Len(rows)} IN
    IF rows = <<>>
    THEN [count |-> 0, avg |-> NULL, min |-> NULL, max |-> NULL]
    ELSE [count |-> Len(rows),
          avg |-> Some(<<sum_values(rows), Len(rows)>>),
          min |-> Some(CHOOSE v \in values : \A w \in values : v <= w),
          max |-> Some(CHOOSE v \in values : \A w \in values : v >= w)]

\* TelemetryLogger.sensor_stats
db_sensor_stats_any_session(d, sid, sensor_type) ==
    aggregates(SelectSeq(d.sensor_readings,
                         LAMBDA r : r.sensor_type = sensor_type))

db_sensor_stats(d, sid, sensor_type) ==
    aggregates(SelectSeq(d.sensor_readings,
                         LAMBDA r : r.session_id = sid /\ r.sensor_type = sensor_type))

\* "if severity:" and the like: an optional string that is given and not empty
given(filter) == filter # <<>> /\ filter[1] # ""

\* TelemetryLogger.list_events: SELECT * ... [AND severity=?] ORDER BY timestamp
db_list_events(d, sid, severity) ==
    order_by_timestamp(SelectSeq(d.events, LAMBDA r :
        r.session_id = sid /\ (given(severity) => r.severity = severity[1])))

\* the columns id, sensor_type, timestamp, value, unit of a reading
reading_columns(r) ==
    [id |-> r.id, sensor_type |-> r.sensor_type, timestamp |-> r.timestamp,
     value |-> r.value, unit |-> r.unit]

\* TelemetryLogger.list_sensor_readings
db_list_sensor_readings_any_session(d, sid, sensor_type) ==
    LET rows == order_by_timestamp(SelectSeq(d.sensor_readings, LAMBDA r :
                    given(sensor_type) => r.sensor_type = sensor_type[1]))
    IN  [i \in 1..Len(rows) |-> reading_columns(rows[i])]

db_list_sensor_readings(d, sid, sensor_type) ==
    LET rows == order_by_timestamp(SelectSeq(d.sensor_readings, LAMBDA r :
                    r.session_id = sid
                    /\ (given(sensor_type) => r.sensor_type = sensor_type[1])))
    IN  [i \in 1..Len(rows) |-> reading_columns(rows[i])]

\* the columns id, actuator_type, timestamp, command, status of a command
command_columns(r) ==
    [id |-> r.id, actuator_type |-> r.actuator_type, timestamp |-> r.timestamp,
     command |-> r.command, status |-> r.status]

\* TelemetryLogger.list_actuator_commands
db_list_actuator_commands(d, sid, actuator_type) ==
    LET rows == order_by_timestamp(SelectSeq(d.actuator_commands, LAMBDA r :
                    r.session_id = sid
                    /\ (given(actuator_type) => r.actuator_type = actuator_type[1])))
    IN  [i \in 1..Len(rows) |-> command_columns(rows[i])]

(***************************************************************************)
(* main.py: the GET handlers                                               *)
(***************************************************************************)
NotFound == Resp(404, "Session not found", <<>>)

\* GET /sessions/{session_id}/sensors/{sensor_type}/stats
sensor_stats(d, sid, sensor_type) ==
    IF db_get_session(d, sid) = <<>> THEN [db |-> d, response |-> NotFound]
    ELSE LET stats == db_sensor_stats(d, sid, sensor_type) IN
         IF stats.count = 0
         THEN [db |-> d, response |-> Resp(404, "No data for sensor", <<>>)]
         ELSE [db |-> d, response |-> Resp(200, "", stats)]

\* GET /sessions/{session_id}/events
get_events(d, sid, severity) ==
    IF db_get_session(d, sid) = <<>> THEN [db |-> d, response |-> NotFound]
    ELSE [db |-> d, response |-> Resp(200, "", db_list_events(d, sid, severity))]

\* GET /sessions/{session_id}/sensors
list_sensors(d, sid, sensor_type) ==
    IF db_get_session(d, sid) = <<>> THEN [db |-> d, response |-> NotFound]
    ELSE [db |-> d,
          response |-> Resp(200, "", db_list_sensor_readings(d, sid, sensor_type))]

\* GET /sessions/{session_id}/actuators
list_actuators(d, sid, actuator_type) ==
    IF db_get_session(d, sid) = <<>> THEN [db |-> d, response |-> NotFound]
    ELSE [db |-> d,
          response |-> Resp(200, "", db_list_actuator_commands(d, sid, actuator_type))]

(***************************************************************************)
(* The telemetry service under writes and queries                          *)
(***************************************************************************)
MaxRecords == 2

ReadingPayloads ==
    {[sensor_type |-> "pressure", value |-> 10, unit |-> "bar"],
     [sensor_type |-> "pressure", value |-> 30, unit |-> "bar"],
     [sensor_type |-> "position_x", value |-> 20, unit |-> "cell"]}
CommandPayloads ==
    [actuator_type : {"movement", "pressure_status"}, command : {1},
     status : {<<"sent">>}]
EventRecords ==
    {[event_type |-> "leak_detected", severity |-> "error", message |-> <<"msg">>],
     [event_type |-> "high_pressure", severity |-> "warning", message |-> <<"msg">>]}

\* the two sessions of the store and an id that no session has
QuerySessionIds == {1, 2, 3}

\* the optional query parameter of each list request: absent, a label in
\* use, a label of another column, or the empty string
SensorFilters == {NULL, Some("pressure"), Some("")}
ActuatorFilters == {NULL, Some("movement")}
EventFilters == {NULL, Some("error"), Some("leak_detected")}

RecordSensor ==
    /\ LogRows(db) < MaxRecords
    /\ \E sid \in QuerySessionIds, payload \in ReadingPayloads, ts \in utcnow(clock) :
          Served(log_sensor(db, sid, payload, ts), ts)

RecordActuator ==
    /\ LogRows(db) < MaxRecords
    /\ \E sid \in QuerySessionIds, payload \in CommandPayloads, ts \in utcnow(clock) :
          Served(log_actuator(db, sid, payload, ts), ts)

RecordEvent ==
    /\ LogRows(db) < MaxRecords
    /\ \E sid \in QuerySessionIds, payload \in EventRecords, ts \in utcnow(clock) :
          Served(log_event(db, sid, payload, ts), ts)

\* a GET handler returned r to the request (op, sid, filter)
Queried(op, sid, filter, r) ==
    /\ db' = r.db
    /\ answer' = Some([op |-> op, sid |-> sid, filter |-> filter,
                       response |-> r.response])
    /\ UNCHANGED <<clock, clientVars, sensorVars, event_loop>>

SensorStats ==
    \E sid \in QuerySessionIds, sensor_type \in {"pressure", "position_x"} :
        Queried("sensor_stats", sid, Some(sensor_type),
                sensor_stats(db, sid, sensor_type))

GetEvents ==
    \E sid \in QuerySessionIds, severity \in EventFilters :
        Queried("get_events", sid, severity, get_events(db, sid, severity))

ListSensors ==
    \E sid \in QuerySessionIds, sensor_type \in SensorFilters :
        Queried("list_sensors", sid, sensor_type, list_sensors(db, sid, sensor_type))

ListActuators ==
    \E sid \in QuerySessionIds, actuator_type \in ActuatorFilters :
        Queried("list_actuators", sid, actuator_type,
                list_actuators(db, sid, actuator_type))

\* two sessions were created at time 0 and the second one was ended
InitQuery ==
    /\ db = db_end_session(
                db_create_session(db_create_session(init_schema, 10, 0).db, 10, 0).db,
                2, "completed", 0)
    /\ clock = 0
    /\ ClientIdle
    /\ SensorIdle
    /\ NoAnswer

NextQuery ==
    \/ RecordSensor \/ RecordActuator \/ RecordEvent
    \/ SensorStats \/ GetEvents \/ ListSensors \/ ListActuators

SpecQuery == InitQuery /\ [][NextQuery]_vars

(***************************************************************************)
(* Properties of the queries                                               *)
(***************************************************************************)
\* the stored readings of session sid with sensor type t, by position
Matching(sid, t) ==
    {i \in 1..Len(db.sensor_readings) :
        /\ db.sensor_readings[i].session_id = sid
        /\ db.sensor_readings[i].sensor_type = t}

RECURSIVE ValueSum(_)
ValueSum(S) ==
    IF S = {} THEN 0
    ELSE LET i == CHOOSE j \in S : TRUE
         IN  db.sensor_readings[i].value + ValueSum(S \ {i})

\* b holds count, average, minimum and maximum of the readings at positions
\* M, the last three null when M is empty
StatsOf(b, M) ==
    LET values == {db.sensor_readings[i].value : i \in M} IN
    /\ b.count = Cardinality(M)
    /\ M = {} => (b.avg = NULL /\ b.min = NULL /\ b.max = NULL)
    /\ M # {} =>
          /\ b.avg # NULL /\ b.avg[1][1] * Cardinality(M) = ValueSum(M) * b.avg[1][2]
          /\ b.min # NULL /\ b.min[1] \in values /\ \A v \in values : b.min[1] <= v
          /\ b.max # NULL /\ b.max[1] \in values /\ \A v \in values : b.max[1] >= v

StatsAnswered == answer # <<>> /\ answer[1].op = "sensor_stats"

\* C11 as claimed: the answer to a sensorStats request on an existing
\* session carries count, average, minimum and maximum of exactly the
\* readings of that session and sensor type, with count = 0 and the other
\* three null when no reading matches.
C11_StatsOverMatchingReadings ==
    (StatsAnswered /\ SessionExists(db, answer[1].sid)) =>
        /\ answer[1].response.code = 200
        /\ StatsOf(answer[1].response.body,
                   Matching(answer[1].sid, answer[1].filter[1]))

\* C11 as amended: TelemetryLogger.sensor_stats returns count, average,
\* minimum and maximum of exactly the readings of that session and sensor
\* type, with count = 0 and the other three null when none matches; the GET
\* handler returns that result when at least one reading matches and
\* answers 404 "No data for sensor" when none does.
C11_StatsOrNoData ==
    /\ \A sid \in QuerySessionIds, t \in {"pressure", "position_x"} :
          StatsOf(db_sensor_stats(db, sid, t), Matching(sid, t))
    /\ (StatsAnswered /\ SessionExists(db, answer[1].sid)) =>
          LET M == Matching(answer[1].sid, answer[1].filter[1]) IN
          IF M = {}
          THEN /\ answer[1].response.code = 404
               /\ answer[1].response.detail = "No data for sensor"
          ELSE /\ answer[1].response.code = 200
               /\ StatsOf(answer[1].response.body, M)

\* statistics over one reading were returned while the table holds a second
\* reading of the same sensor type that belongs to the other session
C11_Witness ==
    /\ StatsAnswered
    /\ answer[1].response.code = 200
    /\ answer[1].response.body.count = 1
    /\ \E i, j \in 1..Len(db.sensor_readings) :
          /\ db.sensor_readings[i].session_id # db.sensor_readings[j].session_id
          /\ db.sensor_readings[i].sensor_type = answer[1].filter[1]
          /\ db.sensor_readings[j].sensor_type = answer[1].filter[1]

ListAnswered ==
    /\ answer # <<>>
    /\ answer[1].op \in {"get_events", "list_sensors", "list_actuators"}
    /\ SessionExists(db, answer[1].sid)

\* the rows of a table that belong to session sid and, when narrow holds,
\* carry the given label in the given column, in the order they were logged
RowsLogged(table, sid, narrow, column, label) ==
    SelectSeq(table, LAMBDA r :
        r.session_id = sid /\ (narrow => r[column] = label))

\* the answer to a list request holds the rows logged for its session, in
\* the order they were logged, narrowed when narrow(filter) holds to the
\* rows whose column (eventColumn for events) equals the filter
ListsReturn(narrow(_), eventColumn) ==
    ListAnswered =>
        LET a == answer[1]
            body == a.response.body
            label == IF a.filter = <<>> THEN "" ELSE a.filter[1]
            sensors == RowsLogged(db.sensor_readings, a.sid, narrow(a.filter),
                                  "sensor_type", label)
            commands == RowsLogged(db.actuator_commands, a.sid, narrow(a.filter),
                                   "actuator_type", label)
        IN  /\ a.response.code = 200
            /\ \A i, j \in 1..Len(body) :
                  i < j => body[i].timestamp <= body[j].timestamp
            /\ a.op = "get_events" =>
                  body = RowsLogged(db.events, a.sid, narrow(a.filter),
                                    eventColumn, label)
            /\ a.op = "list_sensors" =>
                  body = [i \in 1..Len(sensors) |-> reading_columns(sensors[i])]
            /\ a.op = "list_actuators" =>
                  body = [i \in 1..Len(commands) |-> command_columns(commands[i])]

FilterPresent(filter) == filter # <<>>
FilterNotEmpty(filter) == filter # <<>> /\ filter[1] # ""

\* C12 as claimed: a list request returns exactly the rows logged for its
\* session, by ascending timestamp, which is the order they were logged in;
\* with the optional filter, exactly those whose type label (event type,
\* sensor type, actuator type) equals the filter.
C12_ListsFilterByType == ListsReturn(FilterPresent, "event_type")

\* C12 as amended: a list request returns exactly the rows logged for its
\* session, by ascending timestamp, which is the order they were logged in;
\* a filter that is given and not the empty string narrows them to the rows
\* whose sensor type, actuator type or, for events, severity equals it.
C12_ListsFilterAsStored == ListsReturn(FilterNotEmpty, "severity")

\* the events of a session were listed by severity: one of its two events
\* was returned
C12_Witness ==
    /\ ListAnswered
    /\ answer[1].op = "get_events"
    /\ answer[1].filter = Some("error")
    /\ Len(answer[1].response.body) = 1
    /\ Len(RowsLogged(db.events, answer[1].sid, FALSE, "severity", "")) = 2

(***************************************************************************)
(* Properties of the stored rows                                           *)
(***************************************************************************)
LogTables == {"sensor_readings", "actuator_commands", "events"}

\* every row of the three log tables of d is in e, in its place and unchanged
LogExtends(d, e) ==
    \A table \in LogTables :
        /\ Len(e[table]) >= Len(d[table])
        /\ SubSeq(e[table], 1, Len(d[table])) = d[table]

\* no GET request changes the store
QueriesKeepStore ==
    \A sid \in SessionIds :
        /\ \A t \in {"pressure", "position_x"} : sensor_stats(db, sid, t).db = db
        /\ \A f \in EventFilters : get_events(db, sid, f).db = db
        /\ \A f \in SensorFilters : list_sensors(db, sid, f).db = db
        /\ \A f \in ActuatorFilters : list_actuators(db, sid, f).db = db

OtherSessionsKept(d, e, sid) ==
    /\ Len(e.sessions) = Len(d.sessions)
    /\ \A i \in 1..Len(d.sessions) :
          d.sessions[i].id # sid => e.sessions[i] = d.sessions[i]

SessionRunning(d, sid) ==
    \E i \in 1..Len(d.sessions) :
        d.sessions[i].id = sid /\ d.sessions[i].status = "running"

\* C14: an end request with a terminal status on an existing running
\* session succeeds and stores that status and ended_at for that session,
\* changing no other session and no log row; an end request on an id that no
\* session has fails and leaves the store as it was; a create request
\* always adds one session with status running, ended_at unset and an id
\* that no session had before, changing nothing else.
C14_EndAndCreate ==
    /\ \A sid \in SessionIds, payload \in EndPayloads, ts \in utcnow(clock) :
          LET r == end_session(db, sid, payload, ts) IN
          /\ (SessionRunning(db, sid) /\ SessionEnd_valid(payload)) =>
                /\ r.response.code = 200
                /\ \E i \in 1..Len(r.db.sessions) :
                      /\ r.db.sessions[i] =
                            [db.sessions[i] EXCEPT !.status = payload.status,
                                                   !.ended_at = Some(ts)]
                      /\ r.db.sessions[i].id = sid
                      /\ r.response.body = <<r.db.sessions[i]>>
                /\ OtherSessionsKept(db, r.db, sid)
                /\ \A table \in LogTables : r.db[table] = db[table]
          /\ ~SessionExists(db, sid) =>
                /\ r.response.code \in {404, 422}
                /\ SessionEnd_valid(payload) => r.response.code = 404
                /\ r.db = db
    /\ \A v \in VariantIds, ts \in utcnow(clock) :
          LET r == create_session(db, [variant_id |-> v], ts)
              new == r.db.sessions[Len(r.db.sessions)]
          IN  /\ r.response.code = 201
              /\ r.response.body = <<new>>
              /\ Len(r.db.sessions) = Len(db.sessions) + 1
              /\ SubSeq(r.db.sessions, 1, Len(db.sessions)) = db.sessions
              /\ new.status = "running" /\ new.ended_at = NULL
              /\ new.started_at = ts /\ new.variant_id = v
              /\ ~SessionExists(db, new.id)
              /\ \A table \in LogTables : r.db[table] = db[table]

\* the first of two sessions was ended as completed at time 1 while the
\* second one is running and a row has been logged
C14_Witness ==
    /\ Len(db.sessions) = 2
    /\ db.sessions[1].status = "completed" /\ db.sessions[1].ended_at = Some(1)
    /\ db.sessions[2].status = "running" /\ db.sessions[2].id # db.sessions[1].id
    /\ LogRows(db) = 1

\* C20: the log handlers look only at whether the session exists: for a
\* session that has been ended (completed or error) each of the three log
\* requests is still answered 201 and appends its row for that session.
C20_EndedSessionStillLogs ==
    \A sid \in SessionIds, ts \in utcnow(clock) :
        SessionEnded(db, sid) =>
            /\ \A payload \in SensorPayloads :
                  LET r == log_sensor(db, sid, payload, ts) IN
                  /\ r.response.code = 201
                  /\ OneRowAppended(db.sensor_readings, r.db.sensor_readings, sid)
            /\ \A payload \in ActuatorPayloads :
                  LET r == log_actuator(db, sid, payload, ts) IN
                  /\ r.response.code = 201
                  /\ OneRowAppended(db.actuator_commands, r.db.actuator_commands, sid)
            /\ \A payload \in {q \in EventPayloads : EventLog_valid(q)} :
                  LET r == log_event(db, sid, payload, ts) IN
                  /\ r.response.code = 201
                  /\ OneRowAppended(db.events, r.db.events, sid)

\* a row is stored whose timestamp is later than the time its session ended
C20_Witness ==
    \E table \in LogTables :
        \E i \in 1..Len(db[table]), k \in 1..Len(db.sessions) :
            /\ db.sessions[k].id = db[table][i].session_id
            /\ db.sessions[k].status \in {"completed", "error"}
            /\ db.sessions[k].ended_at = Some(0)
            /\ db[table][i].timestamp = 1

(***************************************************************************)
(* Properties of the records a run emits                                   *)
(***************************************************************************)
\* what the i-th request sent is: position_x, position_y, movement,
\* direction, pressure, pressure_status or event
Kind(i) ==
    LET q == posts[i].request IN
    IF q.endpoint = "sensors" THEN q.payload.sensor_type
    ELSE IF q.endpoint = "events" THEN "event"
    ELSE IF q.payload.actuator_type \in {"movement", "pressure_status"}
         THEN q.payload.actuator_type
    ELSE "direction"

KindAfter(i) == IF i = Len(posts) THEN "end" ELSE Kind(i + 1)

\* the kinds that may come next within a point, or open the next point
Follows(kind) ==
    CASE kind = "position_x" -> {"position_y"}
      [] kind = "position_y" -> {"movement"}
      [] kind = "movement" -> {"direction", "pressure"}
      [] kind = "direction" -> {"pressure"}
      [] kind = "pressure" -> {"pressure_status"}
      [] kind = "pressure_status" -> {"event", "position_x", "end"}
      [] kind = "event" -> {"position_x", "end"}

PostsOfKind(kind) == {i \in 1..Len(posts) : Kind(i) = kind}

\* the requests of kind position_x, in the order they were sent
PositionXPosts ==
    SelectSeq([i \in 1..Len(posts) |-> i], LAMBDA i : Kind(i) = "position_x")

\* the request that opens the records of the k-th point inspected
BlockStart(k) == PositionXPosts[k]

\* the records come point by point in the order of the inspections, each
\* point's records complete and in the order position_x, position_y,
\* movement, (direction), pressure, pressure_status, (event); there is one
\* pressure reading and one pressure_status command per inspected point
RecordsInOrder ==
    /\ posts # <<>> => Kind(1) = "position_x"
    /\ \A i \in 1..Len(posts) :
          /\ KindAfter(i) \in Follows(Kind(i))
          /\ Kind(i) = "movement" =>
                LET direction == posts[i].request.payload.status[1] IN
                IF direction = "UNKNOWN" THEN KindAfter(i) # "direction"
                ELSE /\ KindAfter(i) = "direction"
                     /\ posts[i + 1].request.payload.actuator_type
                            = dir_actuator(direction)
    /\ Cardinality(PostsOfKind("position_x")) = Len(moves)
    /\ \A k \in 1..Len(moves) :
          LET i == BlockStart(k) IN
          /\ posts[i].request.payload.value = moves[k].target.x
          /\ posts[i + 1].request.payload.value = moves[k].target.y
          /\ posts[i + 2].request.payload.status
                = <<moves[k].direction, moves[k].target.x, moves[k].target.y>>
    /\ Len(moves) = Cardinality(inspected)
    /\ Cardinality(PostsOfKind("pressure")) = Cardinality(inspected)
    /\ Cardinality(PostsOfKind("pressure_status")) = Cardinality(inspected)

\* C15 as claimed: after any inspections the records were emitted point by
\* point, each point's in the order position_x, position_y, movement,
\* (direction), pressure, pressure_status, (event), and the numbers of
\* pressure readings and of pressure_status commands equal the size of the
\* inspected set.
C15_RecordsInOrder == RecordsInOrder

\* C15 as amended: the same holds whenever the sensor is calibrated; on a
\* sensor that was never calibrated every inspection marks its point
\* inspected and emits the position and movement records only, so points
\* are in the inspected set while no pressure reading and no
\* pressure_status command was emitted.
C15_RecordsInOrderWhenCalibrated ==
    /\ calibration_data # NULL => RecordsInOrder
    /\ calibration_data = NULL =>
          /\ PostsOfKind("pressure") = {}
          /\ PostsOfKind("pressure_status") = {}
          /\ PostsOfKind("event") = {}
          /\ Cardinality(PostsOfKind("position_x")) = Cardinality(inspected)
          /\ Cardinality(PostsOfKind("movement")) = Cardinality(inspected)

\* a run on a calibrated sensor returned after emitting the records of three
\* points, among them a direction command and an event
C15_Witness ==
    /\ pc = "done"
    /\ calibration_data # NULL
    /\ Cardinality(inspected) >= 3
    /\ PostsOfKind("direction") # {}
    /\ PostsOfKind("event") # {}

\* the last of the records of the k-th point inspected
BlockEnd(k) == IF k = Len(moves) THEN Len(posts) ELSE BlockStart(k + 1) - 1

\* the records of kind kind among those of the k-th point inspected
BlockPosts(k, kind) == {i \in BlockStart(k)..BlockEnd(k) : Kind(i) = kind}

LeakEntries(p) == {j \in 1..Len(leaks) : leaks[j][1] = p}

\* the i-th request is an event of the given type and severity about point
\* p and pressure pr
EventAbout(i, type, tag, severity, p, pr) ==
    /\ posts[i].request.payload.event_type = type
    /\ posts[i].request.payload.severity = severity
    /\ posts[i].request.payload.message = <<tag, p.x, p.y, pr>>

\* C16: each inspected point whose reading was classified LEAK has one entry
\* (point, pressure) in the leak list and one leak_detected event of
\* severity error; one classified HIGH has one high_pressure event of
\* severity warning and no leak entry; one classified NORMAL, or never
\* sampled, has no event and no leak entry.  So the leak list is as long as
\* the number of leak_detected events and lists inspected points, each once.
C16_LeaksAndEvents ==
    /\ \A k \in 1..Len(moves) :
          LET p == moves[k].target
              events == BlockPosts(k, "event")
          IN  /\ Cardinality(BlockPosts(k, "pressure_status")) <= 1
              /\ BlockPosts(k, "pressure_status") = {} =>
                    (events = {} /\ LeakEntries(p) = {})
              /\ \A i \in BlockPosts(k, "pressure_status") :
                    LET st == posts[i].request.payload.status[1]
                        pr == posts[i - 1].request.payload.value
                    IN  /\ Kind(i - 1) = "pressure"
                        /\ st = "LEAK" =>
                              /\ events = {i + 1}
                              /\ EventAbout(i + 1, "leak_detected", "leak", "error", p, pr)
                              /\ Cardinality(LeakEntries(p)) = 1
                              /\ \A j \in LeakEntries(p) : leaks[j] = <<p, pr>>
                        /\ st = "HIGH" =>
                              /\ events = {i + 1}
                              /\ EventAbout(i + 1, "high_pressure", "high", "warning", p, pr)
                              /\ LeakEntries(p) = {}
                        /\ st = "NORMAL" => (events = {} /\ LeakEntries(p) = {})
                        /\ st \in {"LEAK", "HIGH", "NORMAL"}
    /\ Len(leaks) = Cardinality({i \in PostsOfKind("event") :
                        posts[i].request.payload.event_type = "leak_detected"})
    /\ \A j \in 1..Len(leaks) :
          /\ leaks[j][1] \in inspected
          /\ LeakEntries(leaks[j][1]) = {j}

\* two points were inspected: one read LEAK and the other HIGH
C16_Witness ==
    /\ Cardinality(inspected) = 2
    /\ Len(leaks) = 1
    /\ Cardinality(PostsOfKind("event")) = 2
    /\ Cardinality(PostsOfKind("pressure_status")) = 2

(***************************************************************************)
(* The crawler under direct calls of move_to                               *)
(***************************************************************************)
MaxMoves == 4

\* crawler.move_to(target, session_id)
MoveTo(target) ==
    /\ Len(moves) < MaxMoves
    /\ \E mv \in {move_to(current_position, target)} :
          \E s \in {post_all(db, clock, session_id, mv.requests)} :
              /\ current_position' = mv.current_position
              /\ moves' = Append(moves, [target |-> target, direction |-> mv.direction])
              /\ posts' = posts \o s.posts
              /\ db' = s.db
              /\ clock' = s.clock
    /\ UNCHANGED <<map_data, calibration_data, calibrate_arg, inspected, leaks, stack,
                   visited,
                   pc, session_id, calls, sensorVars, answer, event_loop>>

NextCrawler == \E target \in CallPoints : MoveTo(target)

SpecCrawler == InitController /\ [][NextCrawler]_vars

\* the direction of the step (dx, dy) in grid coordinates, y growing downwards
StepDirection(dx, dy) ==
    CASE dx = 1 /\ dy = 0 -> "RIGHT"
      [] dx = -1 /\ dy = 0 -> "LEFT"
      [] dx = 0 /\ dy = 1 -> "DOWN"
      [] dx = 0 /\ dy = -1 -> "UP"
      [] OTHER -> "UNKNOWN"

\* C17: the first move_to call returns UNKNOWN; each later call returns
\* RIGHT, LEFT, DOWN or UP exactly when the step from the previous target is
\* (1,0), (-1,0), (0,1) or (0,-1), and UNKNOWN for every other step, a move
\* to the same cell included; after each call the crawler is at the target
\* of that call, and a call with any target goes through.
C17_MoveToDirections ==
    /\ \A k \in 1..Len(moves) :
          moves[k].direction =
              IF k = 1 THEN "UNKNOWN"
              ELSE StepDirection(moves[k].target.x - moves[k - 1].target.x,
                                 moves[k].target.y - moves[k - 1].target.y)
    /\ current_position =
          IF moves = <<>> THEN NULL ELSE Some(moves[Len(moves)].target)
    /\ Len(moves) < MaxMoves => \A target \in CallPoints : ENABLED MoveTo(target)

\* four calls returned UNKNOWN, a horizontal and a vertical direction, and
\* UNKNOWN again for a move that was not the first
C17_Witness ==
    /\ Len(moves) = 4
    /\ moves[2].direction \in {"RIGHT", "LEFT"}
    /\ moves[3].direction \in {"UP", "DOWN"}
    /\ moves[4].direction = "UNKNOWN"

(***************************************************************************)
(* Calibration properties, under SpecSensor                                *)
(***************************************************************************)
\* the status of pressure p against the band (low, high)
StatusAgainst(band, p) ==
    CASE p < band[1] - LeakMargin -> "LEAK"
      [] p >= band[1] - LeakMargin /\ p > HighThreshold -> "HIGH"
      [] OTHER -> "NORMAL"

\* C19: read_pressure and get_pressure_status fail with the
\* uncalibrated-sensor error exactly when no calibrate call has been made on
\* the sensor; after a calibrate call, a later one overwriting an earlier
\* one, neither fails with it and get_pressure_status classifies against
\* the band of the most recent call.
C19_ErrorIffNeverCalibrated ==
    /\ draw.branch = "ValueError" => calibrate_arg = NULL
    /\ Drawn => calibrate_arg # NULL
    /\ status = "ValueError" => calibrate_arg = NULL
    /\ Classified =>
          /\ calibrate_arg # NULL
          /\ status = StatusAgainst(calibrate_arg[1], pressure)
    /\ calibrate_arg = NULL =>
          /\ ENABLED (ReadPressure /\ draw'.branch = "ValueError")
          /\ ENABLED (GetPressureStatus(1000) /\ status' = "ValueError")

\* 100.0 bar was classified LEAK against the band of the last calibrate
\* call; the other bands make it NORMAL
C19_Witness ==
    /\ calibrate_arg = Some(<<1600, 1650>>)
    /\ pressure = 1000
    /\ status = "LEAK"

(***************************************************************************)
(* Grid properties, under SpecInspect                                      *)
(***************************************************************************)
\* the cells of the grid and the ring of cells around it
NearGrid == {PipePoint(x, y) : x \in -1..GridW, y \in -1..GridH}

\* position of the step from p to an adjacent q in the order down, right, up, left
StepRank(p, q) ==
    CASE q.y = p.y + 1 -> 1
      [] q.x = p.x + 1 -> 2
      [] q.y = p.y - 1 -> 3
      [] OTHER -> 4

\* s lists exactly the members of S, each once, by ascending key
ListsInOrder(s, S, key(_)) ==
    /\ Range(s) = S
    /\ Len(s) = Cardinality(S)
    /\ \A i \in 1..Len(s) : \A j \in (i + 1)..Len(s) : key(s[i]) < key(s[j])

RowMajor(p) == p.y * (GridW + 1) + p.x

GridListed ==
    /\ ListsInOrder(get_all_pipe_points(map_data), PipeCells(map_data), RowMajor)
    /\ \A p \in NearGrid :
          ListsInOrder(get_neighbors(map_data, p),
                       {q \in PipeCells(map_data) : Adjacent(p, q)},
                       LAMBDA q : StepRank(p, q))

\* C18: get_all_pipe_points returns exactly the in-bounds cells marked 'X',
\* each once, in row-major order; get_neighbors(p) returns exactly the pipe
\* points at 4-directional distance one from p in the order down, right,
\* up, left; the grid stays as it was.
C18_GridListing == [](GridListed) /\ [][map_data' = map_data]_vars

\* a run ended on a grid where a cell has pipe neighbours below, right and left
C18_Witness ==
    /\ pc = "done"
    /\ Len(get_neighbors(map_data, PipePoint(1, 0))) = 3

(***************************************************************************)
(* Repeated auto_inspect calls, under SpecInspect                          *)
(***************************************************************************)
\* what an inspection changes: the controller, the crawler, the requests
\* sent and the rows they stored
RunLeft == <<inspected, leaks, current_position, moves, posts, db>>

\* at the loop test of the first call the local set is the controller's
VisitedIsInspected ==
    (calls = 1 /\ pc \in {"loop", "done"}) => visited = inspected

\* a step of a call made after the first one, the sensor being calibrated:
\* on a grid with a pipe cell the first call has then returned
LaterCallStep == calls' = 2 /\ calibration_data # NULL

\* C21: during auto_inspect on a fresh controller the local visited set
\* equals the controller's inspected set at every loop iteration; a call
\* made after a call that returned inspects no point, sends no request and
\* leaves the inspected set, the leak list and the crawler position as
\* they were.
C21_VisitedAndSecondCall ==
    /\ [](VisitedIsInspected)
    /\ [][(pc = "done" \/ LaterCallStep) => RunLeft' = RunLeft]_vars

\* the second call has returned after a first call that inspected three
\* cells and found a leak
C21_Witness ==
    /\ calls = 2
    /\ pc = "done"
    /\ calibration_data # NULL
    /\ Cardinality(inspected) >= 3
    /\ leaks # <<>>

(***************************************************************************)
(* main.py: end_session as a coroutine on the event loop.  The frame of a  *)
(* request holds its arguments, where the coroutine stands, the row it     *)
(* read and its response.                                                   *)
(***************************************************************************)
MaxRequests == 2

\* the coroutine the event loop runs after r has passed its checks: the
\* handler has no await between get_session and db.end_session
after_check_yielding(r) == 0

after_check(r) == r

RaceSessionIds == {1, 2}

\* POST /sessions/{session_id}/end is accepted and its coroutine created
Arrive(sid, payload) ==
    /\ event_loop.running = 0
    /\ Len(event_loop.frames) < MaxRequests
    /\ event_loop' = [event_loop EXCEPT !.frames = Append(@,
           [sid |-> sid, payload |-> payload, at |-> "start",
            session |-> <<>>, response |-> <<>>])]
    /\ UNCHANGED <<storeVars, clientVars, sensorVars, answer>>

\* the event loop runs r when it runs nothing else
CanRun(r) == event_loop.running \in {0, r}

\* end_session up to the call of db.end_session: validation, get_session
\* and the two checks
EndCheck(r) ==
    /\ CanRun(r)
    /\ event_loop.frames[r].at = "start"
    /\ LET f == event_loop.frames[r]
           res == end_session(db, f.sid, f.payload, clock)
       IN  event_loop' =
               IF res.response.code # 200
               THEN [running |-> 0,
                     frames |-> [event_loop.frames EXCEPT ![r] =
                         [f EXCEPT !.at = "returned", !.response = Some(res.response)]]]
               ELSE [running |-> after_check(r),
                     frames |-> [event_loop.frames EXCEPT ![r] =
                         [f EXCEPT !.at = "checked",
                                   !.session = db_get_session(db, f.sid)]]]
    /\ UNCHANGED <<storeVars, clientVars, sensorVars, answer>>

\* db.end_session(session_id, payload.status); return db.get_session(session_id)
EndUpdate(r) ==
    /\ CanRun(r)
    /\ event_loop.frames[r].at = "checked"
    /\ \E ts \in utcnow(clock) :
          \E d2 \in {db_end_session(db, event_loop.frames[r].sid,
                                    event_loop.frames[r].payload.status, ts)} :
              /\ db' = d2
              /\ clock' = ts
              /\ event_loop' =
                     [running |-> 0,
                      frames |-> [event_loop.frames EXCEPT ![r] =
                          [event_loop.frames[r] EXCEPT
                              !.at = "returned",
                              !.response = Some(Resp(200, "",
                                  db_get_session(d2, event_loop.frames[r].sid)))]]]
    /\ UNCHANGED <<clientVars, sensorVars, answer>>

\* startup, then POST /sessions has created session 1
InitRace ==
    /\ db = db_create_session(init_schema, 10, 0).db
    /\ clock = 0
    /\ ClientIdle
    /\ SensorIdle
    /\ NoAnswer

NextRace ==
    \/ \E sid \in RaceSessionIds, payload \in EndPayloads : Arrive(sid, payload)
    \/ \E r \in 1..MaxRequests :
          r <= Len(event_loop.frames) /\ (EndCheck(r) \/ EndUpdate(r))

SpecRace == InitRace /\ [][NextRace]_vars

Frames == event_loop.frames

Returned(r) == Frames[r].at = "returned"

Code(r) == Frames[r].response[1].code

\* a step taken while a request stands between its check and its update
\* is that request's update
CheckThenUpdate ==
    \A r \in 1..Len(Frames) :
        Frames[r].at = "checked" =>
            /\ Frames'[r].at = "returned"
            /\ \A q \in 1..Len(Frames) : q # r => Frames'[q] = Frames[q]
            /\ Len(Frames') = Len(Frames)

\* of two answered end requests for the session that was running, one was
\* answered 200, the other 400, and the session has the status of the first
OneEndWins ==
    \A i, j \in 1..Len(Frames) :
        (/\ i # j
         /\ Returned(i) /\ Returned(j)
         /\ Frames[i].sid = 1 /\ Frames[j].sid = 1
         /\ SessionEnd_valid(Frames[i].payload)
         /\ SessionEnd_valid(Frames[j].payload)
         /\ Code(i) # 400)
        => /\ Code(i) = 200
           /\ Code(j) = 400
           /\ Frames[j].response[1].detail = "Session already ended"
           /\ db_get_session(db, 1)[1].status = Frames[i].payload.status

\* C22: the check of end_session (the session exists and is running) and
\* its update are not separated by a step of another request, so of two end
\* requests for the same running session, in any interleaving, exactly one
\* succeeds, the other is answered 400 "Session already ended", and the
\* stored status is the one of the request that succeeded.
C22_EndRequestsSerialised == [](OneEndWins) /\ [][CheckThenUpdate]_vars

\* the request that arrived second ended the session as "error" and the
\* one that arrived first, asking for "completed", was answered 400
C22_Witness ==
    /\ Len(Frames) = 2
    /\ Returned(1) /\ Returned(2)
    /\ Frames[1].sid = 1 /\ Frames[1].payload.status = "completed"
    /\ Frames[2].sid = 1 /\ Frames[2].payload.status = "error"
    /\ Code(2) = 200
    /\ Code(1) = 400

====
